---- MODULE Spec2Model ----
(***************************************************************************)
(* A model of the runeberg Work loader: Work.load_pages builds the         *)
(* PageRange and the Counter of chapter tags, Work.load_articles reads the *)
(* entries of Articles.lst one by one, disambiguates repeated titles and   *)
(* reconciles the chapter tags against the entries.                        *)
(* The methods of PageRange and of Page are also specified on their own    *)
(* (SpecRange, SpecPage, SpecBlank): a call record keeps the name and the  *)
(* arguments of the latest call and the object as it was before the call.  *)
(*                                                                         *)
(* Python strings are modelled as sequences of tokens (a letter, a digit,  *)
(* a space, a bracket, an html tag, a page uid), so that formatting,       *)
(* stripping, splitting and partitioning are computed on the tokens.       *)
(* Python's None is the empty tuple, an optional value x is <<x>>.         *)
(***************************************************************************)
EXTENDS Integers, Sequences, FiniteSets, TLC

VARIABLES
    pc,                      \* position in Work.from_files
    pages,                   \* Work.pages, a PageRange (OrderedDict)
    chapters,                \* the Counter returned by load_pages
    disambiguation_counter,  \* local Counter of load_articles
    reconcile_chapter_tags,  \* parameter of load_articles
    toc,                     \* rows of Articles.lst read so far
    page_list,               \* local: result of the latest parse_range
    made,                    \* the Article built by each completed iteration
    articles,                \* Work.articles, an OrderedDict
    error,                   \* name of the raised exception, "" if none
    unclaimed_chapters,      \* ReconciliationError.unclaimed_chapters
    no_tag_articles,         \* ReconciliationError.no_tag_articles
    the_page,                \* a Page the methods of Page are called on
    call,                    \* the latest method call: name, arguments, object before
    result,                  \* what the latest method call returned or raised
    metadata                 \* Work.metadata, a dict

vars == <<pc, pages, chapters, disambiguation_counter, reconcile_chapter_tags,
          toc, page_list, made, articles, error, unclaimed_chapters,
          no_tag_articles, the_page, call, result, metadata>>

\* ---------------------------------------------------------------- bounds
MaxToc == 3
MaxCount == 3

\* ------------------------------------------------------- values and inputs
None == <<>>
Some(x) == <<x>>

Front(s) == SubSeq(s, 1, Len(s) - 1)
Last(s) == s[Len(s)]
SeqRange(s) == {s[i] : i \in 1..Len(s)}

TitleA == <<"A">>
TitleB == <<"B">>
TitleBoldA == <<"<b>", "A", "</b>">>
TitleA1 == <<"A", " ", "(", "1", ")">>
Titles == {TitleA, TitleBoldA, TitleA1}

P1 == <<"p1">>
P2 == <<"p2">>
P9 == <<"p9">>
PageLst == <<P1, P2>>

Chapter(name) == [kind |-> "chapter", name |-> name]
Txt == [kind |-> "text", name |-> <<"x">>]
Ocrs == { <<>>,
          <<Txt, Chapter(TitleA)>>,
          <<Chapter(TitleA), Chapter(TitleA)>>,
          <<Chapter(TitleB)>>,
          <<Chapter(None)>> }

RangeExprs == { <<>>,
                <<"p1">>,
                <<"p2">>,
                <<"p1", "-", "p2">>,
                <<"p9">>,
                <<"p1", "-", "p9">>,
                <<"p1", " ", "p9">> }

HtmlNames == {<<"a.html">>}

\* no method has been called yet
NoCall == [op |-> "", args |-> <<>>, before |-> None]
NoResult == [err |-> "", val |-> None]

\* ------------------------------------------------- OrderedDict / PageRange
\* an OrderedDict is the sequence of its items [key, value] in insertion order
Keys(d) == [i \in 1..Len(d) |-> d[i].key]
HasKey(d, k) == \E i \in 1..Len(d) : d[i].key = k
Pos(d, k) == CHOOSE i \in 1..Len(d) : d[i].key = k
DictGet(d, k) == IF HasKey(d, k) THEN d[Pos(d, k)].value ELSE None
DictSet(d, k, v) ==
    IF HasKey(d, k)
    THEN [d EXCEPT ![Pos(d, k)] = [key |-> k, value |-> v]]
    ELSE Append(d, [key |-> k, value |-> v])

\* ------------------------------------------------------------------ Counter
\* a Counter is an OrderedDict whose values are integers
CounterGet(c, k) == IF HasKey(c, k) THEN c[Pos(c, k)].value ELSE 0
CounterAdd(c, k, n) == DictSet(c, k, CounterGet(c, k) + n)

RECURSIVE CounterUpdate(_, _)
CounterUpdate(c, list) ==
    IF list = <<>> THEN c
    ELSE CounterUpdate(CounterAdd(c, list[1], 1), Tail(list))

InsertByCount(s, x) ==
    LET n == Cardinality({i \in 1..Len(s) : s[i].value >= x.value})
    IN SubSeq(s, 1, n) \o <<x>> \o SubSeq(s, n + 1, Len(s))

RECURSIVE most_common(_)
most_common(c) ==
    IF c = <<>> THEN <<>>
    ELSE InsertByCount(most_common(Front(c)), Last(c))

\* ---------------------------------------------------------------------- Page
Page(page_uid, ocr) ==
    [uid |-> page_uid, ocr |-> ocr, has_chapters |-> FALSE, chapters |-> <<>>]

ParseChapters(ocr) ==
    LET tags == SelectSeq(ocr, LAMBDA t : t.kind = "chapter")
    IN [i \in 1..Len(tags) |-> tags[i].name]

\* the page after get_chapters(): the list is stored before the check
get_chapters_page(page) ==
    IF page.has_chapters THEN page
    ELSE [page EXCEPT !.has_chapters = TRUE,
                      !.chapters = ParseChapters(page.ocr)]

get_chapters_raises(page) ==
    /\ ~page.has_chapters
    /\ \E i \in 1..Len(ParseChapters(page.ocr)) :
           ParseChapters(page.ocr)[i] = None

get_chapters(page) == get_chapters_page(page).chapters

\* variant: every occurrence is replaced, not only the first
rename_chapter_all(page, old_name, new_name) ==
    [page EXCEPT !.ocr = [i \in 1..Len(page.ocr) |->
                             IF page.ocr[i] = Chapter(old_name)
                             THEN Chapter(new_name) ELSE page.ocr[i]]]

\* variant: the last occurrence is replaced
rename_chapter_last(page, old_name, new_name) ==
    LET hits == {i \in 1..Len(page.ocr) : page.ocr[i] = Chapter(old_name)}
    IN IF hits = {} THEN page
       ELSE LET i == CHOOSE j \in hits : \A k \in hits : j >= k
            IN [page EXCEPT !.ocr[i] = Chapter(new_name)]

\* Page.rename_chapter: str.replace(old marker, new marker, 1)
rename_chapter(page, old_name, new_name) ==
    LET hits == {i \in 1..Len(page.ocr) : page.ocr[i] = Chapter(old_name)}
    IN IF hits = {} THEN page
       ELSE LET i == CHOOSE j \in hits : \A k \in hits : j <= k
            IN [page EXCEPT !.ocr[i] = Chapter(new_name)]

\* Page.BLANK_LABELS and Page.DEFAULT_BLANK, letter by letter
BLANK_LABELS == { <<"b", "l", "a", "n", "k">>,
                  <<"(", "b", "l", "a", "n", "k", ")">> }
DEFAULT_BLANK == <<"<", "b", "l", "a", "n", "k", ">">>

\* Page.set_blank: default_label or DEFAULT_BLANK, label in BLANK_LABELS
set_blank(page, default_label) ==
    IF page.label \in BLANK_LABELS
    THEN [page EXCEPT !.is_proofread = None,
                      !.label = IF default_label = <<>> THEN DEFAULT_BLANK
                                ELSE default_label]
    ELSE page

\* a text token that is white space only
WhiteSpace == [kind |-> "text", name |-> <<" ">>]

\* self.ocr.strip() == ''
OcrIsEmpty(ocr) == \A i \in 1..Len(ocr) : ocr[i] = WhiteSpace

\* variant: a page that is not proofread is taken as a blank page
check_blank_falsy(page) ==
    IF page.is_proofread # Some(TRUE) /\ ~OcrIsEmpty(page.ocr)
    THEN <<"is not empty">>
    ELSE IF page.is_proofread = Some(TRUE) /\ OcrIsEmpty(page.ocr)
    THEN <<"is blank">>
    ELSE IF page.is_proofread = Some(FALSE) /\ OcrIsEmpty(page.ocr)
    THEN <<"might be blank">>
    ELSE <<>>

\* Page.check_blank: the warnings emitted, the page is only read
check_blank(page) ==
    IF page.is_proofread = None /\ ~OcrIsEmpty(page.ocr)
    THEN <<"is not empty">>
    ELSE IF page.is_proofread = Some(TRUE) /\ OcrIsEmpty(page.ocr)
    THEN <<"is blank">>
    ELSE IF page.is_proofread = Some(FALSE) /\ OcrIsEmpty(page.ocr)
    THEN <<"might be blank">>
    ELSE <<>>

\* Page.__init__: the fields are set, then set_blank() is called
PageNew(page_uid, label, ocr, proofread) ==
    set_blank([uid |-> page_uid, label |-> label, ocr |-> ocr,
               is_proofread |-> proofread, has_chapters |-> FALSE,
               chapters |-> <<>>],
              <<>>)

\* ----------------------------------------------------------------- PageRange
\* variant: positions are counted from one
ListIndex_from1(list, x) ==
    IF \E i \in 1..Len(list) : list[i] = x
    THEN [err |-> "", val |-> CHOOSE i \in 1..Len(list) : list[i] = x]
    ELSE [err |-> "ValueError", val |-> 0]

\* list.index: 0-based position of the first match, ValueError if absent
ListIndex(list, x) ==
    IF \E i \in 1..Len(list) : list[i] = x
    THEN [err |-> "",
          val |-> (CHOOSE i \in 1..Len(list) :
                      /\ list[i] = x
                      /\ \A j \in 1..Len(list) : list[j] = x => i <= j) - 1]
    ELSE [err |-> "ValueError", val |-> 0]

index(pr, args) ==
    LET key_list == Keys(pr)
        each == [i \in 1..Len(args) |-> ListIndex(key_list, args[i])]
    IN IF Len(args) = 0 THEN [err |-> "ValueError", val |-> <<>>]
       ELSE IF Len(args) = 1 THEN each[1]
       ELSE IF \E i \in 1..Len(args) : each[i].err # ""
       THEN [err |-> "ValueError", val |-> <<>>]
       ELSE [err |-> "", val |-> [i \in 1..Len(args) |-> each[i].val]]

\* islice(items, start, stop, step); None is the default of each argument
slice(pr, start, stop, step) ==
    LET a == IF start = None THEN 0 ELSE start[1]
        b == IF stop = None THEN Len(pr) ELSE stop[1]
        c == IF step = None THEN 1 ELSE step[1]
        picked(i) == i - 1 >= a /\ i - 1 < b /\ (i - 1 - a) % c = 0
        n == Cardinality({i \in 1..Len(pr) : picked(i)})
    IN [k \in 1..n |->
           pr[CHOOSE i \in 1..Len(pr) :
                  /\ picked(i)
                  /\ Cardinality({j \in 1..i : picked(j)}) = k]]

\* variant: the item of last is never part of the range
get_range_exclusive(pr, first, last, inclusive) ==
    LET ix == index(pr, <<first, last>>)
    IN IF ix.err # "" THEN [err |-> ix.err, val |-> <<>>]
       ELSE [err |-> "",
             val |-> slice(pr, Some(ix.val[1]), Some(ix.val[2]), None)]

get_range(pr, first, last, inclusive) ==
    LET ix == index(pr, <<first, last>>)
    IN IF ix.err # "" THEN [err |-> ix.err, val |-> <<>>]
       ELSE [err |-> "",
             val |-> slice(pr, Some(ix.val[1]),
                           Some(ix.val[2] + (IF inclusive THEN 1 ELSE 0)),
                           None)]

\* PageRange.__str__ on the keys of the range
PageRangeStr(keys) ==
    IF Len(keys) = 0 THEN <<>>
    ELSE IF Len(keys) = 1 THEN keys[1]
    ELSE keys[1] \o <<"-">> \o keys[Len(keys)]

\* ------------------------------------------------------------------ strings
Digits == <<"0", "1", "2", "3", "4", "5", "6", "7", "8", "9">>

RECURSIVE IntStr(_)
IntStr(n) ==
    IF n < 0 THEN <<"-">> \o IntStr(0 - n)
    ELSE IF n < 10 THEN <<Digits[n + 1]>>
    ELSE IntStr(n \div 10) \o <<Digits[(n % 10) + 1]>>

RECURSIVE Strip(_)
Strip(s) ==
    IF s = <<>> THEN s
    ELSE IF Head(s) = " " THEN Strip(Tail(s))
    ELSE IF Last(s) = " " THEN Strip(Front(s))
    ELSE s

\* str.split(sep) on tokens
RECURSIVE Split(_, _)
Split(s, sep) ==
    IF \A i \in 1..Len(s) : s[i] # sep THEN <<s>>
    ELSE LET i == CHOOSE j \in 1..Len(s) :
                      s[j] = sep /\ \A k \in 1..(j - 1) : s[k] # sep
         IN <<SubSeq(s, 1, i - 1)>> \o Split(SubSeq(s, i + 1, Len(s)), sep)

\* str.partition(sep), only used when sep occurs in s
Partition(s, sep) ==
    LET i == CHOOSE j \in 1..Len(s) :
                 s[j] = sep /\ \A k \in 1..(j - 1) : s[k] # sep
    IN <<SubSeq(s, 1, i - 1), <<sep>>, SubSeq(s, i + 1, Len(s))>>

\* ------------------------------------------------------------------ Article
\* a segment of Article.pages refers to the Page objects of Work.pages by key
PageSeg(key) == [type |-> "Page", keys |-> <<key>>]
RangeSeg(keys) == [type |-> "PageRange", keys |-> keys]
NoneSeg == [type |-> "NoneType", keys |-> <<>>]

Article(title, page_segs, html_name, disambig) ==
    [title |-> title, pages |-> page_segs, html_name |-> html_name,
     disambig |-> disambig, no_chapter_tag |-> None]

IsTag(tok) == tok \in {"<b>", "</b>"}

clean_title(article) ==
    Strip(SelectSeq(article.title, LAMBDA tok : ~IsTag(tok)))

uid(article) ==
    IF article.disambig # None /\ article.disambig[1] # 0
    THEN clean_title(article) \o <<" ", "(">>
             \o IntStr(article.disambig[1]) \o <<")">>
    ELSE clean_title(article)

is_toc_header(article) == article.pages = <<>>

has_chapter_tag(article) ==
    ~(is_toc_header(article) \/ article.no_chapter_tag = Some(TRUE))

\* the key of the first Page, None when the first segment holds no page
first_page(article) ==
    IF article.pages = <<>> THEN [err |-> "IndexError", val |-> None]
    ELSE LET page == article.pages[1]
         IN IF page.type = "PageRange"
            THEN [err |-> "",
                  val |-> IF page.keys = <<>> THEN None ELSE page.keys[1]]
            ELSE IF page.type = "Page"
            THEN [err |-> "", val |-> page.keys[1]]
            ELSE [err |-> "", val |-> None]

\* --------------------------------------------------------------------- Work
RECURSIVE TakeWhileRepeated(_)
TakeWhileRepeated(items) ==
    IF items = <<>> \/ ~(items[1].value > 1) THEN <<>>
    ELSE <<items[1].key>> \o TakeWhileRepeated(Tail(items))

\* variant: the cut is made at count >= 1
setup_disambiguation_counter_ge1(chaps) ==
    CounterUpdate(<<>>,
                  Keys(SelectSeq(most_common(chaps),
                                 LAMBDA it : it.value >= 1)))

setup_disambiguation_counter(chaps) ==
    CounterUpdate(<<>>, TakeWhileRepeated(most_common(chaps)))

ParseToken(prange, entry) ==
    IF \E i \in 1..Len(entry) : entry[i] = "-"
    THEN LET parts == Partition(entry, "-")
             sub == get_range(prange, parts[1], parts[3], TRUE)
         IN IF sub.err # "" THEN [err |-> sub.err, val |-> NoneSeg]
            ELSE [err |-> "", val |-> RangeSeg(Keys(sub.val))]
    ELSE [err |-> "",
          val |-> IF HasKey(prange, entry) THEN PageSeg(entry) ELSE NoneSeg]

RECURSIVE ParseEntries(_, _)
ParseEntries(prange, entries) ==
    IF entries = <<>> THEN [err |-> "", val |-> <<>>]
    ELSE IF Strip(entries[1]) = <<>>
    THEN ParseEntries(prange, Tail(entries))
    ELSE LET seg == ParseToken(prange, entries[1])
             rest == ParseEntries(prange, Tail(entries))
         IN IF seg.err # "" THEN [err |-> seg.err, val |-> <<>>]
            ELSE IF rest.err # "" THEN rest
            ELSE [err |-> "", val |-> <<seg.val>> \o rest.val]

parse_range(prange, page_range) ==
    ParseEntries(prange, Split(page_range, " "))

Init ==
    /\ pc = "load_pages"
    /\ pages = <<>>
    /\ chapters = <<>>
    /\ disambiguation_counter = <<>>
    /\ reconcile_chapter_tags = TRUE
    /\ toc = <<>>
    /\ page_list = <<>>
    /\ made = <<>>
    /\ articles = <<>>
    /\ error = ""
    /\ unclaimed_chapters = <<>>
    /\ no_tag_articles = <<>>
    /\ the_page = None
    /\ call = NoCall
    /\ result = NoResult
    /\ metadata = <<>>

\* one iteration of the loop of load_pages
LoadPage ==
    /\ pc = "load_pages"
    /\ Len(pages) < Len(PageLst)
    /\ \E ocr \in Ocrs :
         LET page_uid == PageLst[Len(pages) + 1]
             page == Page(page_uid, ocr)
         IN IF get_chapters_raises(page)
            THEN /\ pc' = "failed"
                 /\ error' = "ValueError"
                 /\ UNCHANGED <<pages, chapters>>
            ELSE /\ chapters' = CounterUpdate(chapters, get_chapters(page))
                 /\ pages' = DictSet(pages, page_uid, get_chapters_page(page))
                 /\ UNCHANGED <<pc, error>>
    /\ UNCHANGED <<disambiguation_counter, reconcile_chapter_tags, toc,
                   page_list, made, articles, unclaimed_chapters,
                   no_tag_articles, the_page, call, result, metadata>>

\* from_files calls load_articles with the Counter of load_pages;
\* load_articles reads Articles.lst and sets up the disambiguation counter
LoadArticlesBegin ==
    /\ pc = "load_pages"
    /\ Len(pages) = Len(PageLst)
    /\ pc' = "load_articles"
    /\ \E reconcile \in BOOLEAN : reconcile_chapter_tags' = reconcile
    /\ disambiguation_counter' = setup_disambiguation_counter(chapters)
    /\ UNCHANGED <<pages, chapters, toc, page_list, made, articles, error,
                   unclaimed_chapters, no_tag_articles, the_page, call,
                   result, metadata>>

\* the values the body of the loop of load_articles leaves behind
Outcome(err, pl, pgs, dc, chaps, arts, md) ==
    [err |-> err, page_list |-> pl, pages |-> pgs,
     disambiguation_counter |-> dc, chapters |-> chaps, articles |-> arts,
     made |-> md]

\* variant: every positive count is decremented
ClaimTag_all(chaps, title) ==
    [i \in 1..Len(chaps) |->
        IF chaps[i].value > 0
        THEN [key |-> chaps[i].key, value |-> chaps[i].value - 1]
        ELSE chaps[i]]

\* variant: a count never goes below zero
ClaimTag_floor(chaps, title) ==
    IF CounterGet(chaps, title) > 0 THEN CounterAdd(chaps, title, -1)
    ELSE chaps

\* chapters[title] -= 1
ClaimTag(chaps, title) == CounterAdd(chaps, title, -1)

\* variant: an exception empties the articles collection
Raise_rollback(err, pl, pgs, dc) ==
    Outcome(err, pl, pgs, dc, chapters, <<>>, made)

\* an exception leaves load_articles: nothing is stored by this iteration
Raise(err, pl, pgs, dc) ==
    Outcome(err, pl, pgs, dc, chapters, articles, made)

\* self.articles[article.uid] = article
Store(article, pgs, dc, chaps) ==
    Outcome("", article.pages, pgs, dc, chaps,
            DictSet(articles, uid(article), article), Append(made, article))

\* the chapter tag check on the first page of a proper article
CheckTag(article, title, pgs, dc, page) ==
    IF get_chapters_raises(page)
    THEN Raise("ValueError", article.pages,
               DictSet(pgs, page.uid, get_chapters_page(page)), dc)
    ELSE IF title \notin SeqRange(get_chapters(page))
    THEN Store([article EXCEPT !.no_chapter_tag = Some(TRUE)],
               DictSet(pgs, page.uid, get_chapters_page(page)), dc, chapters)
    ELSE Store(article, DictSet(pgs, page.uid, get_chapters_page(page)), dc,
               ClaimTag(chapters, title))

CheckFirstPage(article, title, pgs, dc, fp) ==
    IF fp.val = None
    THEN Raise("AttributeError", article.pages, pgs, dc)
    ELSE CheckTag(article, title, pgs, dc, DictGet(pgs, fp.val))

\* variant: a ToC header claims a tag of its title as well
CheckAndStore_header(article, title, pgs, dc) ==
    IF is_toc_header(article)
    THEN Store(article, pgs, dc, ClaimTag(chapters, title))
    ELSE CheckFirstPage(article, title, pgs, dc, first_page(article))

\* the chapter tag check and the store that end the body of the loop
CheckAndStore(article, title, pgs, dc) ==
    IF is_toc_header(article)
    THEN Store(article, pgs, dc, chapters)
    ELSE CheckFirstPage(article, title, pgs, dc, first_page(article))

RenameFirst(article, title, fp) ==
    IF fp.err # ""
    THEN Raise(fp.err, article.pages, pages, disambiguation_counter)
    ELSE IF fp.val = None
    THEN Raise("AttributeError", article.pages, pages,
               disambiguation_counter)
    ELSE CheckAndStore(
             article, title,
             DictSet(pages, fp.val,
                     rename_chapter(DictGet(pages, fp.val), title,
                                    uid(article))),
             CounterAdd(disambiguation_counter, title, 1))

\* the title of the disambiguation set gets the current value of its counter
Disambiguate(article, title) ==
    RenameFirst(article, title, first_page(article))

AfterParse(html_name, title, parsed) ==
    IF parsed.err # ""
    THEN Raise(parsed.err, page_list, pages, disambiguation_counter)
    ELSE IF HasKey(articles, title)
    THEN Raise("DisambiguationError", parsed.val, pages,
               disambiguation_counter)
    ELSE IF HasKey(disambiguation_counter, title)
    THEN Disambiguate(
             Article(title, parsed.val, html_name,
                     Some(CounterGet(disambiguation_counter, title))),
             title)
    ELSE CheckAndStore(Article(title, parsed.val, html_name, None), title,
                       pages, disambiguation_counter)

\* the body of the loop of load_articles for one row of Articles.lst
Iteration(html_name, title, page_range) ==
    AfterParse(html_name, title, parse_range(pages, page_range))

LoadArticle ==
    /\ pc = "load_articles"
    /\ Len(toc) < MaxToc
    /\ \E html_name \in HtmlNames, title \in Titles, page_range \in RangeExprs :
         \E out \in {Iteration(html_name, title, page_range)} :
            /\ toc' = Append(toc, <<html_name, title, page_range>>)
            /\ page_list' = out.page_list
            /\ pages' = out.pages
            /\ disambiguation_counter' = out.disambiguation_counter
            /\ chapters' = out.chapters
            /\ articles' = out.articles
            /\ made' = out.made
            /\ error' = out.err
            /\ pc' = IF out.err = "" THEN "load_articles" ELSE "failed"
    /\ UNCHANGED <<reconcile_chapter_tags, unclaimed_chapters,
                   no_tag_articles, the_page, call, result, metadata>>

\* str() of the first segment of an article
SegStr(seg) ==
    IF seg.type = "Page" THEN seg.keys[1]
    ELSE IF seg.type = "PageRange" THEN PageRangeStr(seg.keys)
    ELSE <<"None">>

UnclaimedLine(item) ==
    item.key \o <<":", " ">> \o IntStr(item.value) \o <<" ", "time(s)">>

NoTagLine(article) ==
    clean_title(article) \o <<":", " ", "page(s)", " ">>
        \o SegStr(article.pages[1])

\* variant: negative counts are not reported
ReconciliationUnclaimed_positive(chaps) ==
    LET kept == SelectSeq(most_common(chaps), LAMBDA it : it.value > 0)
    IN [i \in 1..Len(kept) |-> UnclaimedLine(kept[i])]

\* ReconciliationError.__init__
ReconciliationUnclaimed(chaps) ==
    LET kept == SelectSeq(most_common(chaps), LAMBDA it : it.value # 0)
    IN [i \in 1..Len(kept) |-> UnclaimedLine(kept[i])]

ReconciliationNoTag(arts) ==
    LET kept == SelectSeq(arts,
                          LAMBDA it : it.value.no_chapter_tag = Some(TRUE))
    IN [i \in 1..Len(kept) |-> NoTagLine(kept[i].value)]

\* variant: only positive counts are taken as unclaimed
NeedsReconciliation_positive(chaps) ==
    \E i \in 1..Len(chaps) : chaps[i].value > 0

NeedsReconciliation(chaps) ==
    \E i \in 1..Len(chaps) : chaps[i].value # 0

\* the end of load_articles: the reconciliation check and the return
LoadArticlesEnd ==
    /\ pc = "load_articles"
    /\ IF reconcile_chapter_tags /\ NeedsReconciliation(chapters)
       THEN /\ pc' = "failed"
            /\ error' = "ReconciliationError"
            /\ unclaimed_chapters' = ReconciliationUnclaimed(chapters)
            /\ no_tag_articles' = ReconciliationNoTag(articles)
       ELSE /\ pc' = "done"
            /\ UNCHANGED <<error, unclaimed_chapters, no_tag_articles>>
    /\ UNCHANGED <<pages, chapters, disambiguation_counter,
                   reconcile_chapter_tags, toc, page_list, made, articles,
                   the_page, call, result, metadata>>

Next ==
    \/ LoadPage
    \/ LoadArticlesBegin
    \/ LoadArticle
    \/ LoadArticlesEnd

Spec == Init /\ [][Next]_vars

\* ------------------------------------- setup_disambiguation_counter alone
\* the static method is called on any Counter: a Counter may hold zero and
\* negative counts, and its keys come in any order of insertion
ChapterNames == {TitleA, TitleB, TitleA1}

CounterInputs ==
    {c \in UNION {[1..n -> [key : ChapterNames, value : -1..MaxCount]] :
                  n \in 0..Cardinality(ChapterNames)} :
        \A i, j \in 1..Len(c) : i # j => c[i].key # c[j].key}

InitSetup ==
    /\ pc = "setup"
    /\ chapters \in CounterInputs
    /\ pages = <<>>
    /\ disambiguation_counter = <<>>
    /\ reconcile_chapter_tags = TRUE
    /\ toc = <<>>
    /\ page_list = <<>>
    /\ made = <<>>
    /\ articles = <<>>
    /\ error = ""
    /\ unclaimed_chapters = <<>>
    /\ no_tag_articles = <<>>
    /\ the_page = None
    /\ call = NoCall
    /\ result = NoResult
    /\ metadata = <<>>

SetupCall ==
    /\ pc = "setup"
    /\ pc' = "setup_done"
    /\ disambiguation_counter' = setup_disambiguation_counter(chapters)
    /\ UNCHANGED <<pages, chapters, reconcile_chapter_tags, toc, page_list,
                   made, articles, error, unclaimed_chapters,
                   no_tag_articles, the_page, call, result, metadata>>

NextSetup == SetupCall

SpecSetup == InitSetup /\ [][NextSetup]_vars
\* ------------------------------------------------------------ properties
Row(title, page_range) == <<<<"a.html">>, title, page_range>>
TitleA2 == <<"A", " ", "(", "2", ")">>
OcrOneA == <<Txt, Chapter(TitleA)>>

\* the key of the first page of a stored, non-header article
FirstKey(article) == first_page(article).val

\* Scenario B of the specification, once load_articles has ended
ScenarioB ==
    /\ reconcile_chapter_tags
    /\ pc = "done" \/ error = "ReconciliationError"
    /\ toc = <<Row(TitleA, <<"p1">>), Row(TitleA, <<"p2">>)>>
    /\ pages[1].value.chapters = <<TitleA>>
    /\ pages[2].value.chapters = <<TitleA>>

Earlier(i) == Cardinality({j \in 1..(i - 1) : made[j].title = made[i].title})

\* C1 as the specification states it: in Scenario B the first entry gets
\* uid "A" with its marker untouched and the second gets "A (1)" with its
\* marker rewritten; the n-th entry of a repeated title gets disambiguator n.
C1_Original ==
    /\ ScenarioB =>
         /\ pc = "done"
         /\ Keys(articles) = <<TitleA, TitleA1>>
         /\ pages[1].value.ocr = OcrOneA
         /\ pages[2].value.ocr = <<Txt, Chapter(TitleA1)>>
    /\ \A i \in 1..Len(made) :
         HasKey(disambiguation_counter, made[i].title) =>
             made[i].disambig = Some(Earlier(i))

\* C1 amended: in Scenario B the first entry gets uid "A (1)" and the second
\* "A (2)", the marker of each page is rewritten to that uid and the
\* reconciliation succeeds; the per-title counter starts at one, the n-th
\* entry (n = 0, 1, ...) of a title of the disambiguation set gets
\* disambiguator n + 1, and the marker of its first page is rewritten for
\* every n as long as that page still carries a marker with the bare title.
C1_Disambiguation ==
    /\ ScenarioB =>
         /\ pc = "done"
         /\ Keys(articles) = <<TitleA1, TitleA2>>
         /\ pages[1].value.ocr = <<Txt, Chapter(TitleA1)>>
         /\ pages[2].value.ocr = <<Txt, Chapter(TitleA2)>>
    /\ \A i \in 1..Len(made) :
         HasKey(disambiguation_counter, made[i].title) =>
             /\ made[i].disambig = Some(Earlier(i) + 1)
             /\ LET p == DictGet(pages, FirstKey(made[i]))
                    sameStart == {j \in 1..i :
                                     /\ made[j].title = made[i].title
                                     /\ FirstKey(made[j]) = FirstKey(made[i])}
                    tagged == {n \in 1..Len(p.chapters) :
                                  p.chapters[n] = made[i].title}
                IN Cardinality(sameStart) <= Cardinality(tagged) =>
                       Chapter(uid(made[i])) \in SeqRange(p.ocr)

C1_Witness ==
    /\ ScenarioB
    /\ pc = "done"
    /\ Len(made) = 2
    /\ made[2].disambig = Some(2)

\* C2: the Counter returned by setup_disambiguation_counter has exactly the
\* names counted more than once as keys, each with the value 1 (and is empty
\* when no name is repeated).
C2_SetupCounter ==
    pc = "setup_done" =>
        /\ SeqRange(Keys(disambiguation_counter)) =
               {chapters[i].key : i \in {j \in 1..Len(chapters) :
                                            chapters[j].value > 1}}
        /\ \A i \in 1..Len(disambiguation_counter) :
               disambiguation_counter[i].value = 1
        /\ Cardinality(SeqRange(Keys(disambiguation_counter))) =
               Len(disambiguation_counter)

C2_Witness ==
    /\ pc = "setup_done"
    /\ disambiguation_counter = <<[key |-> TitleA, value |-> 1]>>
    /\ CounterGet(chapters, TitleB) = 1
    /\ HasKey(chapters, TitleA1) /\ CounterGet(chapters, TitleA1) <= 0

\* the article the loop body builds for a row before any check, and its uid
RowArticle(row) ==
    Article(row[2], <<>>, row[1],
            IF HasKey(disambiguation_counter, row[2])
            THEN Some(CounterGet(disambiguation_counter, row[2]))
            ELSE None)

\* C3 as claimed: whenever the uid computed for the row being processed is
\* already a key of the articles collection, the iteration raises
\* DisambiguationError and leaves the collection as it was.
C3_DuplicateUidFails ==
    [][(pc = "load_articles" /\ Len(toc') = Len(toc) + 1
            /\ parse_range(pages, Last(toc')[3]).err = ""
            /\ HasKey(articles, uid(RowArticle(Last(toc')))))
         => (error' = "DisambiguationError" /\ articles' = articles)]_vars

\* C4 as claimed: when load_articles returns, the collection holds one
\* article per row read, under distinct uids, in the order of the rows.
C4_OneArticlePerEntry ==
    pc = "done" =>
        /\ Len(articles) = Len(toc)
        /\ Cardinality(SeqRange(Keys(articles))) = Len(articles)
        /\ \A i \in 1..Len(articles) :
               /\ i <= Len(made)
               /\ articles[i].value = made[i]
               /\ articles[i].key = uid(made[i])
               /\ made[i].title = toc[i][2]

\* C5: a ReconciliationError is raised exactly when reconciliation was asked
\* for and some chapter name is left with a non-zero count after the last
\* row; without the request the error is never raised.
C5_ReconciliationIff ==
    /\ error = "ReconciliationError" =>
           /\ reconcile_chapter_tags
           /\ Len(made) = Len(toc)
           /\ \E i \in 1..Len(chapters) : chapters[i].value # 0
    /\ (pc = "done" /\ reconcile_chapter_tags) =>
           \A i \in 1..Len(chapters) : chapters[i].value = 0

C5_Witness ==
    /\ error = "ReconciliationError"
    /\ \E i \in 1..Len(chapters) : chapters[i].value < 0
    /\ \A i \in 1..Len(chapters) : chapters[i].value <= 0
\* the chapter names that occur in the counter or as a title
Names == SeqRange(Keys(chapters)) \cup Titles

\* C6 as claimed: after a successful load with reconciliation, on every page
\* each chapter name occurs exactly as often as there are tagged entries
\* with that title starting on the page, so that every occurrence is matched
\* by one entry and no occurrence is consumed twice.
C6_EveryTagMatchedOnce ==
    (pc = "done" /\ reconcile_chapter_tags) =>
        \A p \in 1..Len(pages), m \in Names :
            Cardinality({n \in 1..Len(pages[p].value.chapters) :
                            pages[p].value.chapters[n] = m})
            = Cardinality({i \in 1..Len(made) :
                              /\ has_chapter_tag(made[i])
                              /\ made[i].title = m
                              /\ FirstKey(made[i]) = pages[p].key})

\* C7: an iteration that stores a proper (non-header) article either finds
\* the raw title missing from get_chapters() of the first page, sets
\* no_chapter_tag and leaves every count alone, or decrements the count of
\* exactly that title by one and leaves no_chapter_tag unset.
C7_TagCheckFrame ==
    [][(pc = "load_articles" /\ Len(made') = Len(made) + 1
            /\ ~is_toc_header(Last(made')))
         => IF Last(made').title \notin
                  SeqRange(get_chapters(
                               DictGet(pages, FirstKey(Last(made')))))
            THEN /\ Last(made').no_chapter_tag = Some(TRUE)
                 /\ chapters' = chapters
            ELSE /\ Last(made').no_chapter_tag = None
                 /\ Len(chapters') = Len(chapters)
                 /\ \A i \in 1..Len(chapters) :
                        /\ chapters'[i].key = chapters[i].key
                        /\ chapters'[i].value =
                               IF chapters[i].key = Last(made').title
                               THEN chapters[i].value - 1
                               ELSE chapters[i].value]_vars

C7_Witness ==
    /\ pc = "load_articles"
    /\ Len(made) = 2
    /\ made[1].no_chapter_tag = Some(TRUE)
    /\ made[2].no_chapter_tag = None /\ ~is_toc_header(made[2])
    /\ CounterGet(chapters, TitleA) = 0
    /\ CounterGet(chapters, TitleB) = 1

\* C8: a ReconciliationError lists one line per chapter name with a
\* non-zero count, positive or negative, with that count, and one line per
\* stored article with no_chapter_tag set, in the order of the collection,
\* made of its clean title and the text of its first segment.
C8_ErrorReport ==
    error = "ReconciliationError" =>
        /\ LET nz == {i \in 1..Len(chapters) : chapters[i].value # 0}
           IN /\ Len(unclaimed_chapters) = Cardinality(nz)
              /\ SeqRange(unclaimed_chapters) =
                     {chapters[i].key \o <<":", " ">>
                          \o IntStr(chapters[i].value) \o <<" ", "time(s)">> :
                      i \in nz}
        /\ LET nt == SelectSeq(articles,
                               LAMBDA it :
                                   it.value.no_chapter_tag = Some(TRUE))
           IN /\ Len(no_tag_articles) = Len(nt)
              /\ \A k \in 1..Len(nt) :
                     /\ ~is_toc_header(nt[k].value)
                     /\ no_tag_articles[k] =
                            clean_title(nt[k].value)
                                \o <<":", " ", "page(s)", " ">>
                                \o SegStr(nt[k].value.pages[1])

C8_Witness ==
    /\ error = "ReconciliationError"
    /\ Len(no_tag_articles) = 1
    /\ Len(unclaimed_chapters) = 2
    /\ \E i \in 1..Len(articles) : has_chapter_tag(articles[i].value)
    /\ \E i \in 1..Len(articles) : is_toc_header(articles[i].value)

\* C9 as claimed: a row with an empty page range, whatever its title, is
\* stored as a ToC header without a tag check and does not make the load
\* fail (the duplicate-title error of C3 apart).
C9_HeaderRowStored ==
    \A i \in 1..Len(toc) :
        toc[i][3] = <<>> =>
            \/ /\ i <= Len(made)
               /\ is_toc_header(made[i])
               /\ made[i].no_chapter_tag = None
            \/ /\ i = Len(toc)
               /\ error = "DisambiguationError"

\* a page range names a page uid that Work.pages does not hold
NamesUnknownPage(page_range) ==
    \E k \in 1..Len(page_range) :
        /\ page_range[k] \notin {"-", " "}
        /\ ~HasKey(pages, <<page_range[k]>>)

\* C10 as claimed: a page range that names an unknown page uid makes
\* parse_range fail with a lookup error; no segment is made of it.
C10_UnknownPageFails ==
    /\ \A k \in 1..Len(page_list) : page_list[k].type # "NoneType"
    /\ \A i \in 1..Len(toc) :
           NamesUnknownPage(toc[i][3]) =>
               (i = Len(toc) /\ pc = "failed" /\ error = "ValueError")

\* the occurrences of a name among the chapter tags load_pages counted
GlobalCount(m) ==
    Cardinality({pn \in UNION {{<<p, n>> :
                                   n \in 1..Len(pages[p].value.chapters)} :
                               p \in 1..Len(pages)} :
                    pages[pn[1]].value.chapters[pn[2]] = m})

\* the stored non-header entries that claimed a tag named m
Claims(m) ==
    Cardinality({i \in 1..Len(made) :
                    has_chapter_tag(made[i]) /\ made[i].title = m})

\* C11: when more non-header entries claim a name than its global count, the
\* remaining count of the name is negative (the global count less the claims),
\* and a load with reconciliation that ends with a negative count fails with
\* ReconciliationError, whose report holds the line of that negative count.
C11_NegativeCountFails ==
    /\ \A m \in Names :
           Claims(m) > GlobalCount(m) =>
               /\ CounterGet(chapters, m) = GlobalCount(m) - Claims(m)
               /\ CounterGet(chapters, m) < 0
    /\ (/\ reconcile_chapter_tags
        /\ pc = "done" \/ error = "ReconciliationError"
        /\ \E i \in 1..Len(chapters) : chapters[i].value < 0)
         => /\ error = "ReconciliationError"
            /\ \A i \in 1..Len(chapters) :
                   chapters[i].value < 0 =>
                       (chapters[i].key \o <<":", " ", "-">>
                            \o IntStr(0 - chapters[i].value)
                            \o <<" ", "time(s)">>)
                       \in SeqRange(unclaimed_chapters)

C11_Witness ==
    /\ error = "ReconciliationError"
    /\ Claims(TitleA) = 3
    /\ GlobalCount(TitleA) = 2
    /\ unclaimed_chapters = <<<<"A", ":", " ", "-", "1", " ", "time(s)">>>>

\* --------------------------------------------- the methods of PageRange alone
\* index and get_range are called on any PageRange, with keys it holds and
\* with a key it does not hold
MaxRange == 3
MaxArgs == 2

RangeKeys == {<<"one">>, <<"two">>, <<"three">>}
AbsentKey == <<"four">>
CallKeys == RangeKeys \cup {AbsentKey}

PageRangeInputs ==
    {[i \in 1..Len(ks) |-> [key |-> ks[i], value |-> Page(ks[i], <<>>)]] :
        ks \in {k \in UNION {[1..n -> RangeKeys] : n \in 0..MaxRange} :
                   \A i, j \in 1..Len(k) : i # j => k[i] # k[j]}}

IndexArgs == UNION {[1..n -> CallKeys] : n \in 0..MaxArgs}

InitRange ==
    /\ pc = "page_range"
    /\ pages \in PageRangeInputs
    /\ chapters = <<>>
    /\ disambiguation_counter = <<>>
    /\ reconcile_chapter_tags = TRUE
    /\ toc = <<>>
    /\ page_list = <<>>
    /\ made = <<>>
    /\ articles = <<>>
    /\ error = ""
    /\ unclaimed_chapters = <<>>
    /\ no_tag_articles = <<>>
    /\ the_page = None
    /\ call = NoCall
    /\ result = NoResult
    /\ metadata = <<>>

\* pages.index(*args)
IndexCall ==
    /\ pc = "page_range"
    /\ \E args \in IndexArgs :
          /\ call' = [op |-> "index", args |-> args, before |-> pages]
          /\ result' = index(pages, args)
    /\ UNCHANGED <<pc, pages, chapters, disambiguation_counter,
                   reconcile_chapter_tags, toc, page_list, made, articles,
                   error, unclaimed_chapters, no_tag_articles, the_page,
                   metadata>>

\* pages.get_range(first, last, inclusive)
GetRangeCall ==
    /\ pc = "page_range"
    /\ \E first \in CallKeys, last \in CallKeys, inclusive \in BOOLEAN :
          /\ call' = [op |-> "get_range",
                      args |-> <<first, last, inclusive>>, before |-> pages]
          /\ result' = get_range(pages, first, last, inclusive)
    /\ UNCHANGED <<pc, pages, chapters, disambiguation_counter,
                   reconcile_chapter_tags, toc, page_list, made, articles,
                   error, unclaimed_chapters, no_tag_articles, the_page,
                   metadata>>

NextRange ==
    \/ IndexCall
    \/ GetRangeCall

SpecRange == InitRange /\ [][NextRange]_vars

\* both keys of the latest get_range call are held by the range
BothPresent ==
    /\ call.op = "get_range"
    /\ HasKey(call.before, call.args[1])
    /\ HasKey(call.before, call.args[2])

\* C13: get_range(first, last) with both keys present and first not after
\* last returns a new PageRange equal to the items at the positions
\* index(first) up to and including index(last), without the item of last
\* when inclusive is False, and leaves the source range as it was.
C13_GetRangeSlice ==
    (BothPresent /\ Pos(call.before, call.args[1])
                       <= Pos(call.before, call.args[2])) =>
        /\ result.err = ""
        /\ result.val =
               SubSeq(call.before, Pos(call.before, call.args[1]),
                      IF call.args[3] THEN Pos(call.before, call.args[2])
                      ELSE Pos(call.before, call.args[2]) - 1)
        /\ pages = call.before

C13_Witness ==
    /\ BothPresent
    /\ Len(pages) = 3
    /\ call.args = <<pages[2].key, pages[3].key, TRUE>>
    /\ result.val = <<pages[2], pages[3]>>

\* C14 as claimed: get_range(first, last) with both keys present and last
\* before first fails with an error and returns no range.
C14_ReversedFails ==
    (BothPresent /\ Pos(call.before, call.args[2])
                       < Pos(call.before, call.args[1])) =>
        result.err # ""

\* C15: index(key) returns the 0-based position of the key in insertion
\* order, index(k1, ..., kn) with n > 1 the list of the positions in the
\* order of the arguments; the call fails when a key is absent and when no
\* key is given.
C15_Index ==
    call.op = "index" =>
        IF call.args = <<>> \/ \E i \in 1..Len(call.args) :
                                  ~HasKey(call.before, call.args[i])
        THEN result.err # ""
        ELSE /\ result.err = ""
             /\ IF Len(call.args) = 1
                THEN result.val = Pos(call.before, call.args[1]) - 1
                ELSE result.val =
                         [i \in 1..Len(call.args) |->
                             Pos(call.before, call.args[i]) - 1]

C15_Witness ==
    /\ call.op = "index"
    /\ Keys(pages) = <<<<"one">>, <<"two">>, <<"three">>>>
    /\ call.args = <<<<"three">>, <<"two">>>>
    /\ result = [err |-> "", val |-> <<2, 1>>]

\* ------------------------------------------- the chapter methods of Page alone
\* a Page is built from a text and get_chapters and rename_chapter are
\* called on it in any order
PageOcrs ==
    Ocrs \cup {<<Chapter(TitleA), Txt, Chapter(TitleB), Chapter(TitleA)>>}

InitPage ==
    /\ pc = "page_new"
    /\ pages = <<>>
    /\ chapters = <<>>
    /\ disambiguation_counter = <<>>
    /\ reconcile_chapter_tags = TRUE
    /\ toc = <<>>
    /\ page_list = <<>>
    /\ made = <<>>
    /\ articles = <<>>
    /\ error = ""
    /\ unclaimed_chapters = <<>>
    /\ no_tag_articles = <<>>
    /\ the_page = None
    /\ call = NoCall
    /\ result = NoResult
    /\ metadata = <<>>

\* Page(uid, ocr=text)
NewPage ==
    /\ pc = "page_new"
    /\ pc' = "page"
    /\ \E ocr \in PageOcrs :
          /\ the_page' = PageNew(P1, <<>>, ocr, None)
          /\ call' = [op |-> "__init__", args |-> <<<<>>, ocr, None>>,
                      before |-> None]
    /\ result' = NoResult
    /\ UNCHANGED <<pages, chapters, disambiguation_counter,
                   reconcile_chapter_tags, toc, page_list, made, articles,
                   error, unclaimed_chapters, no_tag_articles, metadata>>

\* the_page.get_chapters()
GetChaptersCall ==
    /\ pc = "page"
    /\ the_page' = get_chapters_page(the_page)
    /\ call' = [op |-> "get_chapters", args |-> <<>>, before |-> the_page]
    /\ result' = IF get_chapters_raises(the_page)
                 THEN [err |-> "ValueError", val |-> None]
                 ELSE [err |-> "", val |-> get_chapters(the_page)]
    /\ UNCHANGED <<pc, pages, chapters, disambiguation_counter,
                   reconcile_chapter_tags, toc, page_list, made, articles,
                   error, unclaimed_chapters, no_tag_articles, metadata>>

\* the_page.rename_chapter(old_name, new_name); the call record notes
\* whether the call repeats the one before it
RenameChapterCall ==
    /\ pc = "page"
    /\ \E old_name \in ChapterNames, new_name \in ChapterNames :
          /\ the_page' = rename_chapter(the_page, old_name, new_name)
          /\ call' = [op |-> "rename_chapter",
                      args |-> <<old_name, new_name>>, before |-> the_page,
                      again |-> (/\ call.op = "rename_chapter"
                                 /\ call.args = <<old_name, new_name>>)]
    /\ result' = NoResult
    /\ UNCHANGED <<pc, pages, chapters, disambiguation_counter,
                   reconcile_chapter_tags, toc, page_list, made, articles,
                   error, unclaimed_chapters, no_tag_articles, metadata>>

NextPage ==
    \/ NewPage
    \/ GetChaptersCall
    \/ RenameChapterCall

SpecPage == InitPage /\ [][NextPage]_vars

\* the positions of the markers named name in a text
MarkersNamed(ocr, name) == {i \in 1..Len(ocr) : ocr[i] = Chapter(name)}

\* a list with new_name in place of the first old_name
FirstReplaced(list, old_name, new_name) ==
    [i \in 1..Len(list) |->
        IF list[i] = old_name /\ \A j \in 1..(i - 1) : list[j] # old_name
        THEN new_name ELSE list[i]]

\* C16: rename_chapter(old, new) rewrites only the first marker named old:
\* later markers named old, the other markers and the other text stay, and
\* the text is unchanged when it holds no marker named old.
C16_RenameFirstOnly ==
    call.op = "rename_chapter" =>
        /\ Len(the_page.ocr) = Len(call.before.ocr)
        /\ \A i \in 1..Len(call.before.ocr) :
               the_page.ocr[i] =
                   IF /\ i \in MarkersNamed(call.before.ocr, call.args[1])
                      /\ \A j \in MarkersNamed(call.before.ocr, call.args[1]) :
                             i <= j
                   THEN Chapter(call.args[2])
                   ELSE call.before.ocr[i]
        /\ MarkersNamed(call.before.ocr, call.args[1]) = {} =>
               the_page.ocr = call.before.ocr

C16_Witness ==
    /\ call.op = "rename_chapter"
    /\ call.args = <<TitleA, TitleA1>>
    /\ call.before.ocr =
           <<Chapter(TitleA), Txt, Chapter(TitleB), Chapter(TitleA)>>
    /\ the_page.ocr =
           <<Chapter(TitleA1), Txt, Chapter(TitleB), Chapter(TitleA)>>

\* a rename_chapter call that repeats the call made just before it
RepeatedRename ==
    /\ call.op = "rename_chapter"
    /\ call'.op = "rename_chapter"
    /\ call'.args = call.args
    /\ call'.before = the_page

\* C17 as claimed: a second identical rename_chapter call leaves the text as
\* the first call left it, also when the text holds several markers named
\* old.
C17_Original ==
    [][RepeatedRename => the_page'.ocr = the_page.ocr]_vars

\* C17 amended: a second identical call leaves the text as the first call
\* left it when old equals new or the text held at most one marker named
\* old before the first call; when it held several and old differs from
\* new, the second call rewrites the next marker named old.
C17_RenameTwice ==
    [][RepeatedRename =>
          IF \/ call.args[1] = call.args[2]
             \/ Cardinality(MarkersNamed(call.before.ocr, call.args[1])) <= 1
          THEN the_page'.ocr = the_page.ocr
          ELSE /\ the_page'.ocr # the_page.ocr
               /\ Cardinality(MarkersNamed(the_page'.ocr, call.args[1])) =
                      Cardinality(MarkersNamed(call.before.ocr,
                                               call.args[1])) - 2
               /\ Cardinality(MarkersNamed(the_page'.ocr, call.args[2])) =
                      Cardinality(MarkersNamed(call.before.ocr,
                                               call.args[2])) + 2]_vars

C17_Witness ==
    /\ call.op = "rename_chapter"
    /\ call.again
    /\ call.args = <<TitleA, TitleA1>>
    /\ call.before.ocr = <<Chapter(TitleA1), Chapter(TitleA)>>
    /\ the_page.ocr = <<Chapter(TitleA1), Chapter(TitleA1)>>

\* C18 as claimed: whenever rename_chapter(old, new) is followed by
\* get_chapters() on a page whose markers all have a name, the call returns
\* the marker list of the text before the rename with new in place of the
\* first old, also when get_chapters() was called before the rename.
C18_RenameThenGetChapters ==
    [][(/\ call.op = "rename_chapter"
        /\ call'.op = "get_chapters"
        /\ None \notin SeqRange(ParseChapters(call.before.ocr)))
          => /\ result'.err = ""
             /\ result'.val = FirstReplaced(ParseChapters(call.before.ocr),
                                            call.args[1], call.args[2])]_vars

\* C19 as claimed: get_chapters() on a page with a marker that has no name
\* fails on every call, and no call returns a list holding a missing name.
C19_MissingNameAlwaysFails ==
    call.op = "get_chapters" =>
        /\ None \in SeqRange(ParseChapters(call.before.ocr)) =>
               result.err # ""
        /\ result.err = "" => None \notin SeqRange(result.val)

\* ------------------------------------------------- Page.set_blank alone
\* a Page is built with a label and a proofread status; the label and the
\* status are assigned and set_blank is called in any order
Labels == { <<>>,
            <<"b", "l", "a", "n", "k">>,
            <<"(", "b", "l", "a", "n", "k", ")">>,
            <<"B", "l", "a", "n", "k">>,
            <<"(", "B", "L", "A", "N", "K", ")">>,
            <<"f", "o", "o">>,
            DEFAULT_BLANK }
ProofreadValues == {None, Some(TRUE), Some(FALSE)}
DefaultLabels == {<<>>, <<"-">>}
BlankOcrs == {<<>>, <<WhiteSpace>>, <<Txt>>, <<WhiteSpace, Txt, WhiteSpace>>}

InitBlank ==
    /\ pc = "blank_new"
    /\ pages = <<>>
    /\ chapters = <<>>
    /\ disambiguation_counter = <<>>
    /\ reconcile_chapter_tags = TRUE
    /\ toc = <<>>
    /\ page_list = <<>>
    /\ made = <<>>
    /\ articles = <<>>
    /\ error = ""
    /\ unclaimed_chapters = <<>>
    /\ no_tag_articles = <<>>
    /\ the_page = None
    /\ call = NoCall
    /\ result = NoResult
    /\ metadata = <<>>

\* Page(uid, label=label, ocr=ocr, proofread=proofread)
NewLabelledPage ==
    /\ pc = "blank_new"
    /\ pc' = "blank"
    /\ \E label \in Labels, ocr \in BlankOcrs, proofread \in ProofreadValues :
          /\ the_page' = PageNew(P1, label, ocr, proofread)
          /\ call' = [op |-> "__init__", args |-> <<label, ocr, proofread>>,
                      before |-> None]
    /\ result' = NoResult
    /\ UNCHANGED <<pages, chapters, disambiguation_counter,
                   reconcile_chapter_tags, toc, page_list, made, articles,
                   error, unclaimed_chapters, no_tag_articles, metadata>>

\* the_page.label = label
AssignLabel ==
    /\ pc = "blank"
    /\ \E label \in Labels :
          /\ the_page' = [the_page EXCEPT !.label = label]
          /\ call' = [op |-> "label", args |-> <<label>>,
                      before |-> the_page]
    /\ result' = NoResult
    /\ UNCHANGED <<pc, pages, chapters, disambiguation_counter,
                   reconcile_chapter_tags, toc, page_list, made, articles,
                   error, unclaimed_chapters, no_tag_articles, metadata>>

\* the_page.is_proofread = proofread
AssignProofread ==
    /\ pc = "blank"
    /\ \E proofread \in ProofreadValues :
          /\ the_page' = [the_page EXCEPT !.is_proofread = proofread]
          /\ call' = [op |-> "is_proofread", args |-> <<proofread>>,
                      before |-> the_page]
    /\ result' = NoResult
    /\ UNCHANGED <<pc, pages, chapters, disambiguation_counter,
                   reconcile_chapter_tags, toc, page_list, made, articles,
                   error, unclaimed_chapters, no_tag_articles, metadata>>

\* the_page.set_blank(default_label)
SetBlankCall ==
    /\ pc = "blank"
    /\ \E default_label \in DefaultLabels :
          /\ the_page' = set_blank(the_page, default_label)
          /\ call' = [op |-> "set_blank", args |-> <<default_label>>,
                      before |-> the_page]
    /\ result' = NoResult
    /\ UNCHANGED <<pc, pages, chapters, disambiguation_counter,
                   reconcile_chapter_tags, toc, page_list, made, articles,
                   error, unclaimed_chapters, no_tag_articles, metadata>>

\* the_page.check_blank()
CheckBlankCall ==
    /\ pc = "blank"
    /\ call' = [op |-> "check_blank", args |-> <<>>, before |-> the_page]
    /\ result' = [err |-> "", val |-> check_blank(the_page)]
    /\ UNCHANGED <<pc, pages, chapters, disambiguation_counter,
                   reconcile_chapter_tags, toc, page_list, made, articles,
                   error, unclaimed_chapters, no_tag_articles, the_page,
                   metadata>>

NextBlank ==
    \/ NewLabelledPage
    \/ CheckBlankCall
    \/ AssignLabel
    \/ AssignProofread
    \/ SetBlankCall

SpecBlank == InitBlank /\ [][NextBlank]_vars

\* a label with its letters in lower case
Lower(label) ==
    [i \in 1..Len(label) |->
        IF label[i] = "B" THEN "b"
        ELSE IF label[i] = "L" THEN "l"
        ELSE IF label[i] = "A" THEN "a"
        ELSE IF label[i] = "N" THEN "n"
        ELSE IF label[i] = "K" THEN "k"
        ELSE label[i]]

\* C20 as claimed: set_blank() on a page whose label is "blank" or "(blank)"
\* in any letter case sets proofread to None and the label to the canonical
\* blank label; with any other label, the empty one included, both stay as
\* they were; a second set_blank() changes nothing further.
C20_SetBlank ==
    (call.op = "set_blank" /\ call.args = <<<<>>>>) =>
        /\ IF Lower(call.before.label) \in BLANK_LABELS
           THEN /\ the_page.is_proofread = None
                /\ the_page.label = DEFAULT_BLANK
           ELSE /\ the_page.is_proofread = call.before.is_proofread
                /\ the_page.label = call.before.label
        /\ set_blank(the_page, <<>>) = the_page

\* ------------------------------------------------------ Article.uid alone
\* an Article is built with any title and disambiguator; the disambiguator
\* is assigned and uid is read in any order.  The title is never assigned
\* after construction, so the memo of clean_title always equals the value
\* computed from the title.
UidTitles == Titles \cup {TitleB}
Disambigs == {None} \cup {Some(n) : n \in -1..MaxCount}
UidPages == {<<>>, <<PageSeg(P1)>>}

InitUid ==
    /\ pc = "article"
    /\ pages = <<>>
    /\ chapters = <<>>
    /\ disambiguation_counter = <<>>
    /\ reconcile_chapter_tags = TRUE
    /\ toc = <<>>
    /\ page_list = <<>>
    /\ made \in {<<Article(title, page_segs, <<"a.html">>, disambig)>> :
                    title \in UidTitles, page_segs \in UidPages,
                    disambig \in Disambigs}
    /\ articles = <<>>
    /\ error = ""
    /\ unclaimed_chapters = <<>>
    /\ no_tag_articles = <<>>
    /\ the_page = None
    /\ call = NoCall
    /\ result = NoResult
    /\ metadata = <<>>

\* article.uid
ReadUid ==
    /\ pc = "article"
    /\ call' = [op |-> "uid", args |-> <<>>, before |-> made[1]]
    /\ result' = [err |-> "", val |-> uid(made[1])]
    /\ UNCHANGED <<pc, pages, chapters, disambiguation_counter,
                   reconcile_chapter_tags, toc, page_list, made, articles,
                   error, unclaimed_chapters, no_tag_articles, the_page,
                   metadata>>

\* article.disambig = disambig
AssignDisambig ==
    /\ pc = "article"
    /\ \E disambig \in Disambigs :
          /\ made' = <<[made[1] EXCEPT !.disambig = disambig]>>
          /\ call' = [op |-> "disambig", args |-> <<disambig>>,
                      before |-> made[1]]
    /\ result' = NoResult
    /\ UNCHANGED <<pc, pages, chapters, disambiguation_counter,
                   reconcile_chapter_tags, toc, page_list, articles,
                   error, unclaimed_chapters, no_tag_articles, the_page,
                   metadata>>

NextUid ==
    \/ ReadUid
    \/ AssignDisambig

SpecUid == InitUid /\ [][NextUid]_vars

\* C21 as claimed: uid is clean_title when the article has no
\* disambiguator and "clean_title (disambiguator)" for every integer
\* disambiguator, 0 included; reading uid changes nothing of the article,
\* so that a repeated read returns the same value.
C21_UidFormat ==
    call.op = "uid" =>
        /\ result.val =
               IF call.before.disambig = None
               THEN clean_title(call.before)
               ELSE clean_title(call.before) \o <<" ", "(">>
                        \o IntStr(call.before.disambig[1]) \o <<")">>
        /\ made[1] = call.before
        /\ uid(made[1]) = result.val

\* the markers of a stored page that differ from the markers load_pages read
Rewritten(page) ==
    {n \in 1..Len(page.chapters) :
        ParseChapters(page.ocr)[n] # page.chapters[n]}

\* the positions at which two texts of equal length differ
Changed(ocr_old, ocr_new) == {n \in 1..Len(ocr_old) : ocr_old[n] # ocr_new[n]}

\* C22 as claimed: during one load the text of a page is rewritten at most
\* once, also when several entries of the disambiguation set start on it;
\* every rewrite renames one more marker of the text load_pages read, so at
\* most one marker of a page ever differs from that text.
C22_Original ==
    \A p \in 1..Len(pages) : Cardinality(Rewritten(pages[p].value)) <= 1

\* C22 amended: a page text is rewritten only by the disambiguation step of
\* an entry whose title is in the disambiguation set, on the first page of
\* that entry, and each such entry rewrites at most one marker, from the
\* bare title to a disambiguated uid of the title; a page on which several
\* such entries start is rewritten once for each of them.
C22_RewriteOncePerEntry ==
    [][\A p \in 1..Len(pages) :
          pages'[p].value.ocr # pages[p].value.ocr =>
              /\ pc = "load_articles"
              /\ Len(toc') = Len(toc) + 1
              /\ HasKey(disambiguation_counter, Last(toc')[2])
              /\ parse_range(pages, Last(toc')[3]).err = ""
              /\ pages[p].key =
                     first_page(Article(Last(toc')[2],
                                        parse_range(pages,
                                                    Last(toc')[3]).val,
                                        Last(toc')[1], None)).val
              /\ Len(pages'[p].value.ocr) = Len(pages[p].value.ocr)
              /\ \E n \in 1..Len(pages[p].value.ocr) :
                     /\ Changed(pages[p].value.ocr,
                                pages'[p].value.ocr) = {n}
                     /\ pages[p].value.ocr[n] = Chapter(Last(toc')[2])
                     /\ pages'[p].value.ocr[n] =
                            Chapter(uid(RowArticle(Last(toc'))))
              /\ \A q \in 1..Len(pages) :
                     q # p => pages'[q].value.ocr = pages[q].value.ocr]_vars

C22_Witness ==
    /\ pc = "done"
    /\ Len(made) = 2
    /\ pages[1].value.chapters = <<TitleA, TitleA>>
    /\ pages[1].value.ocr = <<Chapter(TitleA1), Chapter(TitleA2)>>

\* the non-empty tokens of a page range expression, in order
Tokens(page_range) ==
    SelectSeq(Split(page_range, " "), LAMBDA entry : Strip(entry) # <<>>)

\* C23 as claimed: parse_range returns one segment per non-empty token, in
\* token order: the sub-range get_range(first, last) for a token with '-',
\* the single Page with that uid for a token without; the empty expression
\* gives the empty list, and the keys of the Work's PageRange stay.
C23_ParseRange ==
    (Len(toc) > 0 /\ error # "ValueError") =>
        /\ Len(page_list) = Len(Tokens(Last(toc)[3]))
        /\ \A k \in 1..Len(page_list) :
               IF "-" \in SeqRange(Tokens(Last(toc)[3])[k])
               THEN /\ page_list[k].type = "PageRange"
                    /\ page_list[k].keys =
                           Keys(get_range(pages,
                                          <<Tokens(Last(toc)[3])[k][1]>>,
                                          <<Tokens(Last(toc)[3])[k][3]>>,
                                          TRUE).val)
               ELSE /\ page_list[k].type = "Page"
                    /\ page_list[k].keys = <<Tokens(Last(toc)[3])[k]>>
                    /\ HasKey(pages, Tokens(Last(toc)[3])[k])
        /\ Keys(pages) = PageLst

\* C24: check_blank() emits exactly one warning in each of three cases (a
\* blank page, proofread None, with a text that is not empty; a proofread
\* page with an empty text; a page not proofread with an empty text) and
\* none in any other case; it never raises and leaves the page as it was.
C24_CheckBlank ==
    call.op = "check_blank" =>
        /\ result.err = ""
        /\ the_page = call.before
        /\ result.val =
               IF the_page.is_proofread = None
               THEN (IF OcrIsEmpty(the_page.ocr) THEN <<>>
                     ELSE <<"is not empty">>)
               ELSE IF ~OcrIsEmpty(the_page.ocr) THEN <<>>
               ELSE IF the_page.is_proofread = Some(TRUE)
               THEN <<"is blank">>
               ELSE <<"might be blank">>

C24_Witness ==
    /\ call.op = "check_blank"
    /\ the_page.label = DEFAULT_BLANK
    /\ the_page.is_proofread = None
    /\ the_page.ocr = <<WhiteSpace, Txt, WhiteSpace>>
    /\ result.val = <<"is not empty">>

\* ------------------------------------------------- Work.load_metadata alone
\* load_metadata is called on a Work with uid 'test', whose metadata is
\* empty or was assigned before, and any Metadata file of up to MaxLines
\* lines
MaxLines == 3

WorkUid == <<"test">>
Utf8 == <<"utf-8">>

MetadataLines ==
    { <<"CHARSET", ":", " ", "utf-8">>,
      <<"TITLEKEY", ":", " ", "test">>,
      <<"FOO", ":", "bar", ":", "baz">>,
      <<"#", " ", "a comment">>,
      <<>>,
      <<"an invalid line">>,
      <<"CHARSET", ":", " ", "latin-1">>,
      <<"TITLEKEY", ":", " ", "other_id">> }

MetadataFiles == UNION {[1..n -> MetadataLines] : n \in 0..MaxLines}

\* str.lstrip() on tokens
RECURSIVE LStrip(_)
LStrip(str) ==
    IF str # <<>> /\ Head(str) = " " THEN LStrip(Tail(str)) ELSE str

HasColon(line) == \E i \in 1..Len(line) : line[i] = ":"

\* field, _, value = line.partition(':')
LineField(line) == IF HasColon(line) THEN Partition(line, ":")[1] ELSE line
LineValue(line) == IF HasColon(line) THEN Partition(line, ":")[3] ELSE <<>>

\* the loop over the lines of the file, md is the local dict
RECURSIVE ParseMetadata(_, _)
ParseMetadata(md, lines) ==
    IF lines = <<>> THEN [err |-> "", val |-> md]
    ELSE IF Head(lines) = <<>> \/ Head(Head(lines)) = "#"
    THEN ParseMetadata(md, Tail(lines))
    ELSE IF HasKey(md, LineField(Head(lines)))
    THEN [err |-> "NotImplementedError", val |-> md]
    ELSE IF ~HasColon(Head(lines))
    THEN [err |-> "ValueError", val |-> md]
    ELSE ParseMetadata(DictSet(md, LineField(Head(lines)),
                               LStrip(LineValue(Head(lines)))),
                       Tail(lines))

\* variant: the charset of the work is not checked
SanityChecks_nocharset(parsed) ==
    IF parsed.err # "" THEN parsed
    ELSE IF DictGet(parsed.val, <<"TITLEKEY">>) # WorkUid
    THEN [err |-> "ValueError", val |-> parsed.val]
    ELSE parsed

\* the sanity checks that follow the loop
SanityChecks(parsed) ==
    IF parsed.err # "" THEN parsed
    ELSE IF DictGet(parsed.val, <<"CHARSET">>) # Utf8
    THEN [err |-> "NotImplementedError", val |-> parsed.val]
    ELSE IF DictGet(parsed.val, <<"TITLEKEY">>) # WorkUid
    THEN [err |-> "ValueError", val |-> parsed.val]
    ELSE parsed

\* what load_metadata raises or returns for the lines of a file
load_metadata(lines) == SanityChecks(ParseMetadata(<<>>, lines))

InitMetadata ==
    /\ pc = "metadata"
    /\ pages = <<>>
    /\ chapters = <<>>
    /\ disambiguation_counter = <<>>
    /\ reconcile_chapter_tags = TRUE
    /\ toc = <<>>
    /\ page_list = <<>>
    /\ made = <<>>
    /\ articles = <<>>
    /\ error = ""
    /\ unclaimed_chapters = <<>>
    /\ no_tag_articles = <<>>
    /\ the_page = None
    /\ call = NoCall
    /\ result = NoResult
    /\ metadata = <<>>

\* work.metadata = {'TEST': 'test'}
AssignMetadata ==
    /\ pc = "metadata"
    /\ metadata = <<>>
    /\ metadata' = <<[key |-> <<"TEST">>, value |-> <<"test">>]>>
    /\ call' = [op |-> "metadata", args |-> <<>>, before |-> metadata]
    /\ UNCHANGED <<pc, pages, chapters, disambiguation_counter,
                   reconcile_chapter_tags, toc, page_list, made, articles,
                   error, unclaimed_chapters, no_tag_articles, the_page,
                   result>>

\* work.load_metadata(base_path): self.metadata is assigned last
LoadMetadata ==
    /\ pc = "metadata"
    /\ pc' = "metadata_done"
    /\ \E lines \in MetadataFiles :
          \E out \in {load_metadata(lines)} :
             /\ call' = [op |-> "load_metadata", args |-> lines,
                         before |-> metadata]
             /\ result' = IF out.err = "" THEN out
                          ELSE [err |-> out.err, val |-> None]
             /\ metadata' = IF out.err = "" THEN out.val ELSE metadata
    /\ UNCHANGED <<pages, chapters, disambiguation_counter,
                   reconcile_chapter_tags, toc, page_list, made, articles,
                   error, unclaimed_chapters, no_tag_articles, the_page>>

NextMetadata ==
    \/ AssignMetadata
    \/ LoadMetadata

SpecMetadata == InitMetadata /\ [][NextMetadata]_vars

\* the lines of a file that are neither empty nor comments
DataLines(lines) ==
    SelectSeq(lines, LAMBDA line : line # <<>> /\ Head(line) # "#")

\* the text of a line before its first ':' and after it, leading spaces off
FieldOf(line) ==
    SubSeq(line, 1, (CHOOSE i \in 1..Len(line) :
                        line[i] = ":" /\ \A j \in 1..(i - 1) : line[j] # ":")
                    - 1)
ValueOf(line) ==
    LStrip(SubSeq(line,
                  (CHOOSE i \in 1..Len(line) :
                      line[i] = ":" /\ \A j \in 1..(i - 1) : line[j] # ":")
                  + 1,
                  Len(line)))

\* every line parses and both sanity checks pass
GoodFile(lines) ==
    /\ \A i \in 1..Len(DataLines(lines)) : ":" \in SeqRange(DataLines(lines)[i])
    /\ \A i, j \in 1..Len(DataLines(lines)) :
           i # j => FieldOf(DataLines(lines)[i]) # FieldOf(DataLines(lines)[j])
    /\ \E i \in 1..Len(DataLines(lines)) :
           /\ FieldOf(DataLines(lines)[i]) = <<"CHARSET">>
           /\ ValueOf(DataLines(lines)[i]) = <<"utf-8">>
    /\ \E i \in 1..Len(DataLines(lines)) :
           /\ FieldOf(DataLines(lines)[i]) = <<"TITLEKEY">>
           /\ ValueOf(DataLines(lines)[i]) = WorkUid

\* C25: load_metadata replaces work.metadata with the field -> value
\* mapping of the file, comment and empty lines ignored, and returns it,
\* when every line parses and both sanity checks pass; in any other case it
\* raises and work.metadata keeps the value it had before the call.
C25_LoadMetadata ==
    call.op = "load_metadata" =>
        IF GoodFile(call.args)
        THEN /\ result.err = ""
             /\ result.val = metadata
             /\ metadata =
                    [i \in 1..Len(DataLines(call.args)) |->
                        [key |-> FieldOf(DataLines(call.args)[i]),
                         value |-> ValueOf(DataLines(call.args)[i])]]
        ELSE /\ result.err # ""
             /\ metadata = call.before

C25_Witness ==
    /\ call.op = "load_metadata"
    /\ call.before # <<>>
    /\ call.args = << <<"CHARSET", ":", " ", "utf-8">>,
                      <<"TITLEKEY", ":", " ", "other_id">> >>
    /\ result.err = "ValueError"
    /\ metadata = call.before

\* ------------------------------------------------------ prompt_choice alone
\* prompt_choice(length, select_action, per_page) reads one input after the
\* other until it returns or exits; the inputs are strings of characters
MaxLength == 4
MaxInputs == 2

PerPages == {0, 3}
Choices == { <<"n">>, <<"N">>, <<"q">>, <<"Q">>, <<"f", "o", "o">>, <<>>,
             <<"0">>, <<"-", "2">>, <<"1">>, <<"3">>, <<"4">>, <<"5">>,
             <<"1", "0">> }

\* str.lower() on the letters of the inputs
StrLower(str) ==
    [i \in 1..Len(str) |->
        IF str[i] = "N" THEN "n" ELSE IF str[i] = "Q" THEN "q" ELSE str[i]]

IsDigit(ch) == \E d \in 1..10 : Digits[d] = ch

RECURSIVE DigitsValue(_)
DigitsValue(str) ==
    IF str = <<>> THEN 0
    ELSE 10 * DigitsValue(Front(str))
             + (CHOOSE d \in 0..9 : Digits[d + 1] = Last(str))

\* int(choice), None in place of the ValueError
ParseInt(str) ==
    IF str # <<>> /\ \A i \in 1..Len(str) : IsDigit(str[i])
    THEN Some(DigitsValue(str))
    ELSE IF /\ Len(str) > 1
            /\ Head(str) = "-"
            /\ \A i \in 2..Len(str) : IsDigit(str[i])
    THEN Some(0 - DigitsValue(Tail(str)))
    ELSE None

\* variant: the choice 0 is taken as an entry
PromptStep_zero(choice, length, per_page) ==
    IF StrLower(choice) = <<"n">> /\ per_page # 0
    THEN [kind |-> "return", val |-> None]
    ELSE IF StrLower(choice) = <<"q">>
    THEN [kind |-> "exit", val |-> Some(0)]
    ELSE IF /\ ParseInt(choice) # None
            /\ 0 <= ParseInt(choice)[1]
            /\ ParseInt(choice)[1] <= length
    THEN [kind |-> "return", val |-> ParseInt(choice)]
    ELSE [kind |-> "again", val |-> None]

\* one round of the loop of prompt_choice on the input read
PromptStep(choice, length, per_page) ==
    IF StrLower(choice) = <<"n">> /\ per_page # 0
    THEN [kind |-> "return", val |-> None]
    ELSE IF StrLower(choice) = <<"q">>
    THEN [kind |-> "exit", val |-> Some(0)]
    ELSE IF /\ ParseInt(choice) # None
            /\ ParseInt(choice)[1] # 0
            /\ 1 <= ParseInt(choice)[1]
            /\ ParseInt(choice)[1] <= length
    THEN [kind |-> "return", val |-> ParseInt(choice)]
    ELSE [kind |-> "again", val |-> None]

InitPrompt ==
    /\ pc = "prompt"
    /\ pages = <<>>
    /\ chapters = <<>>
    /\ disambiguation_counter = <<>>
    /\ reconcile_chapter_tags = TRUE
    /\ toc = <<>>
    /\ page_list = <<>>
    /\ made = <<>>
    /\ articles = <<>>
    /\ error = ""
    /\ unclaimed_chapters = <<>>
    /\ no_tag_articles = <<>>
    /\ the_page = None
    /\ call \in {[op |-> "prompt_choice", args |-> <<length, per_page>>,
                   before |-> None, inputs |-> <<>>] :
                     length \in 1..MaxLength, per_page \in PerPages}
    /\ result = NoResult
    /\ metadata = <<>>

\* choice = input(prompt) and the tests on it
ReadChoice ==
    /\ pc = "prompt"
    /\ Len(call.inputs) < MaxInputs
    /\ \E choice \in Choices :
          \E out \in {PromptStep(choice, call.args[1], call.args[2])} :
             /\ call' = [call EXCEPT !.inputs = Append(@, choice)]
             /\ pc' = IF out.kind = "return" THEN "returned"
                      ELSE IF out.kind = "exit" THEN "exited"
                      ELSE "prompt"
             /\ result' = IF out.kind = "return"
                          THEN [err |-> "", val |-> out.val]
                          ELSE IF out.kind = "exit"
                          THEN [err |-> "SystemExit", val |-> out.val]
                          ELSE NoResult
    /\ UNCHANGED <<pages, chapters, disambiguation_counter,
                   reconcile_chapter_tags, toc, page_list, made, articles,
                   error, unclaimed_chapters, no_tag_articles, the_page,
                   metadata>>

NextPrompt == ReadChoice

SpecPrompt == InitPrompt /\ [][NextPrompt]_vars

\* the latest input is the decimal numeral of an entry 1..length
ChoiceOfEntry ==
    \E n \in 1..call.args[1] : Last(call.inputs) = IntStr(n)

\* C26: prompt_choice returns only an integer n with 1 <= n <= length, or
\* None, and None only when per_page is not zero and the input was 'n' or
\* 'N'; the input 'q' or 'Q' exits with code 0; after any other input the
\* prompt is repeated and nothing is returned.
C26_PromptChoice ==
    (call.op = "prompt_choice" /\ call.inputs # <<>>) =>
        /\ \A i \in 1..(Len(call.inputs) - 1) :
               /\ call.inputs[i] \notin {<<"q">>, <<"Q">>}
               /\ call.inputs[i] \in {<<"n">>, <<"N">>} => call.args[2] = 0
               /\ \A n \in 1..call.args[1] : call.inputs[i] # IntStr(n)
        /\ IF Last(call.inputs) \in {<<"q">>, <<"Q">>}
           THEN pc = "exited" /\ result = [err |-> "SystemExit",
                                            val |-> Some(0)]
           ELSE IF Last(call.inputs) \in {<<"n">>, <<"N">>}
                       /\ call.args[2] # 0
           THEN pc = "returned" /\ result = [err |-> "", val |-> None]
           ELSE IF ChoiceOfEntry
           THEN /\ pc = "returned"
                /\ result.err = ""
                /\ result.val # None
                /\ result.val[1] \in 1..call.args[1]
                /\ IntStr(result.val[1]) = Last(call.inputs)
           ELSE pc = "prompt" /\ result = NoResult

C26_Witness ==
    /\ call.op = "prompt_choice"
    /\ call.args = <<4, 0>>
    /\ call.inputs = <<<<"n">>, <<"4">>>>
    /\ pc = "returned"
    /\ result.val = Some(4)

\* C27 as claimed: after a successful load, for every stored article that
\* carries a disambiguator and has a chapter tag, the text of its first
\* page holds a chapter marker named exactly as the uid of the article.
C27_MarkerMatchesUid ==
    pc = "done" =>
        \A i \in 1..Len(articles) :
            (/\ articles[i].value.disambig # None
             /\ has_chapter_tag(articles[i].value))
              => Chapter(uid(articles[i].value))
                     \in SeqRange(DictGet(pages,
                                          FirstKey(articles[i].value)).ocr)

\* --------------------- load_articles called again after it has failed
\* a caller that catches the exception of load_articles holds the same Work
\* and the same count table, and may call load_articles on them once more
FailedInLoop ==
    /\ pc = "failed"
    /\ toc # <<>>
    /\ error # "ReconciliationError"

LoadArticlesAgain ==
    /\ FailedInLoop
    /\ call' = [op |-> "load_articles", args |-> toc,
                before |-> [error |-> error, articles |-> articles,
                            pages |-> pages, chapters |-> chapters,
                            made |-> made]]
    /\ pc' = "load_articles_again"
    /\ disambiguation_counter' = setup_disambiguation_counter(chapters)
    /\ toc' = <<>>
    /\ made' = <<>>
    /\ page_list' = <<>>
    /\ error' = ""
    /\ UNCHANGED <<pages, chapters, articles, reconcile_chapter_tags,
                   unclaimed_chapters, no_tag_articles, the_page, result,
                   metadata>>

\* one iteration of the loop in the second call: Articles.lst is the same
\* file, so the rows the first call has read come again in the same order;
\* the second call never gets past them (C28_NothingRolledBack)
LoadArticleAgain ==
    /\ pc = "load_articles_again"
    /\ Len(toc) < Len(call.args)
    /\ \E html_name \in HtmlNames, title \in Titles, page_range \in RangeExprs :
         /\ <<html_name, title, page_range>> = call.args[Len(toc) + 1]
         /\ \E out \in {Iteration(html_name, title, page_range)} :
              /\ toc' = Append(toc, <<html_name, title, page_range>>)
              /\ page_list' = out.page_list
              /\ pages' = out.pages
              /\ disambiguation_counter' = out.disambiguation_counter
              /\ chapters' = out.chapters
              /\ articles' = out.articles
              /\ made' = out.made
              /\ error' = out.err
              /\ pc' = IF out.err = "" THEN "load_articles_again"
                       ELSE "failed_again"
    /\ UNCHANGED <<reconcile_chapter_tags, unclaimed_chapters,
                   no_tag_articles, the_page, call, result, metadata>>

NextRetry ==
    \/ LoadPage
    \/ LoadArticlesBegin
    \/ LoadArticle
    \/ LoadArticlesEnd
    \/ LoadArticlesAgain
    \/ LoadArticleAgain

SpecRetry == Init /\ [][NextRetry]_vars

\* the articles collection is what the completed iterations have stored:
\* one key per uid, holding the article of the last entry with that uid
StoredFromMade ==
    /\ \A i \in 1..Len(articles) :
         \E j \in 1..Len(made) :
            /\ uid(made[j]) = articles[i].key
            /\ made[j] = articles[i].value
            /\ \A l \in (j + 1)..Len(made) : uid(made[l]) # articles[i].key
    /\ \A j \in 1..Len(made) : HasKey(articles, uid(made[j]))

\* the second call has ended
AgainEnded == pc = "failed_again"

\* the second call has ended as the first call, on a fresh Work, had
SameAsFresh ==
    /\ error = call.before.error
    /\ toc = call.args
    /\ made = call.before.made
    /\ articles = call.before.articles
    /\ pages = call.before.pages
    /\ chapters = call.before.chapters

\* the step on which an exception leaves the loop of load_articles
FailingStep ==
    \/ pc = "load_articles" /\ pc' = "failed"
          /\ error' # "ReconciliationError"
    \/ pc = "load_articles_again" /\ pc' = "failed_again"
          /\ error' # "ReconciliationError"

\* the entries the first call has stored under a uid equal to the raw title
StoredUnderTitle ==
    {j \in 1..Len(call.before.made) :
        uid(call.before.made[j]) = call.args[j][2]}

FirstStoredUnderTitle ==
    CHOOSE j \in StoredUnderTitle : \A l \in StoredUnderTitle : j <= l

AgainOutcome ==
    pc \in {"load_articles_again", "failed_again"} =>
        /\ pc = "load_articles_again" => Len(toc) < Len(call.args)
        /\ StoredUnderTitle # {} =>
             /\ Len(toc) <= FirstStoredUnderTitle
             /\ Len(toc) = FirstStoredUnderTitle
                  => (pc = "failed_again" /\ error = "DisambiguationError")
             /\ AgainEnded => ~SameAsFresh
        /\ (Len(call.args) = 1 /\ AgainEnded) => SameAsFresh

MaxPages == 3
PageUids == {P1, P2}

PageLists == UNION {[1..n -> PageUids] : n \in 0..MaxPages}

PageFiles ==
    {<<[key |-> P1, value |-> o1], [key |-> P2, value |-> o2]>> :
        o1 \in Ocrs, o2 \in Ocrs}

InitPages ==
    /\ pc = "load_pages_lst"
    /\ call \in [op : {"load_pages"}, args : PageLists, before : PageFiles]
    /\ pages = <<>>
    /\ chapters = <<>>
    /\ disambiguation_counter = <<>>
    /\ reconcile_chapter_tags = TRUE
    /\ toc = <<>>
    /\ page_list = <<>>
    /\ made = <<>>
    /\ articles = <<>>
    /\ error = ""
    /\ unclaimed_chapters = <<>>
    /\ no_tag_articles = <<>>
    /\ the_page = None
    /\ result = NoResult
    /\ metadata = <<>>

\* one iteration of the loop of load_pages over the rows of Pages.lst;
\* made holds the Page built by each completed iteration
LoadPageRow ==
    /\ pc = "load_pages_lst"
    /\ Len(made) < Len(call.args)
    /\ \E page_uid \in {call.args[Len(made) + 1]} :
         \E page \in {Page(page_uid, DictGet(call.before, page_uid))} :
            IF get_chapters_raises(page)
            THEN /\ pc' = "failed"
                 /\ error' = "ValueError"
                 /\ UNCHANGED <<pages, chapters, made>>
            ELSE /\ chapters' = CounterUpdate(chapters, get_chapters(page))
                 /\ pages' = DictSet(pages, page_uid, get_chapters_page(page))
                 /\ made' = Append(made, get_chapters_page(page))
                 /\ UNCHANGED <<pc, error>>
    /\ UNCHANGED <<disambiguation_counter, reconcile_chapter_tags, toc,
                   page_list, articles, unclaimed_chapters, no_tag_articles,
                   the_page, call, result, metadata>>

\* return chapters
LoadPagesReturn ==
    /\ pc = "load_pages_lst"
    /\ Len(made) = Len(call.args)
    /\ pc' = "pages_loaded"
    /\ result' = [err |-> "", val |-> chapters]
    /\ UNCHANGED <<pages, chapters, disambiguation_counter,
                   reconcile_chapter_tags, toc, page_list, made, articles,
                   error, unclaimed_chapters, no_tag_articles, the_page, call,
                   metadata>>

NextPages ==
    \/ LoadPageRow
    \/ LoadPagesReturn

SpecPages == InitPages /\ [][NextPages]_vars

\* the uids of a page list in the order of their first occurrence
FirstOccurrences(lst) ==
    SelectSeq([i \in 1..Len(lst) |->
                  IF \E j \in 1..(i - 1) : lst[j] = lst[i]
                  THEN None ELSE lst[i]],
              LAMBDA k : k # None)

\* C29 as claimed: after load_pages, for every marker name the returned count
\* is the number of its occurrences over the pages stored in the pages
\* collection, and the collection holds the pages in page-list order under
\* unique keys, for every page list, one that repeats a uid included.
C29_CountsMatchStoredPages ==
    pc = "pages_loaded" =>
        /\ \A m \in ChapterNames : CounterGet(result.val, m) = GlobalCount(m)
        /\ \A i \in 1..Len(result.val) :
               result.val[i].value = GlobalCount(result.val[i].key)
        /\ Keys(pages) = FirstOccurrences(call.args)
        /\ \A i, j \in 1..Len(pages) : i # j => pages[i].key # pages[j].key


\* the step of load_articles that has processed a ToC header entry
HeaderStep ==
    /\ pc = "load_articles"
    /\ Len(made') = Len(made) + 1
    /\ is_toc_header(made'[Len(made')])

\* the remaining count of every name is its count over the pages less the
\* processed proper entries of that raw title whose no_chapter_tag is not set
RemainingCounts ==
    \A m \in Names : CounterGet(chapters, m) = GlobalCount(m) - Claims(m)

\* C30: at every point of load_articles, after each entry, the remaining
\* count of every name m is the initial global count of m less the number of
\* processed non-header entries with raw title m for which no_chapter_tag was
\* not set; a ToC header entry changes no count.
C30_RemainingCount ==
    [][/\ RemainingCounts'
       /\ HeaderStep => chapters' = chapters]_vars

C30_Witness ==
    /\ pc = "load_articles"
    /\ Len(made) = 3
    /\ has_chapter_tag(made[1])
    /\ Claims(made[1].title) = 1
    /\ CounterGet(chapters, made[1].title) = GlobalCount(made[1].title) - 1
    /\ ~is_toc_header(made[2])
    /\ made[2].no_chapter_tag = Some(TRUE)
    /\ is_toc_header(made[3])
    /\ GlobalCount(made[1].title) = 2

====
